---- MODULE Spec2Model ----
(***************************************************************************)
(* world-graph (src/src/main.rs): the cache-or-generate pipeline behind    *)
(* POST /wander and GET /explore.                                          *)
(*                                                                         *)
(* A Rust String is modelled as the sequence of its bytes, so that the     *)
(* derived Ord on Pair/String (bytewise lexicographic) and str::trim are   *)
(* computed, not assumed.  The triple table is the sequence of its rows in *)
(* rowid (insertion) order.  Every .await on the pool or on the oracle is  *)
(* a point where another request may run: one action per such point.       *)
(***************************************************************************)
EXTENDS Integers, Sequences, FiniteSets, TLC

VARIABLES
    strategy,     \* AppState.strategy, fixed at startup
    store,        \* rows of table triple, in rowid order
    pc,           \* per request task: where the handler is suspended
    req,          \* per request: the Pair as received in the JSON body
    pair,         \* per request: pair.canonical()
    tsa,          \* get_examples: the rows kept for pair.a
    p,            \* conjure: the compiled prompt
    calls,        \* conjure: the completion futures handed to join_all / awaited
    c,            \* conjure: the chosen answer
    result,       \* what the handler returned
    lookup,       \* history: outcome of get_triple in wander
    allFailed,    \* history: the Sample arm joined with no call answered
    oracleCalls,  \* history: completion() invocations of this request
    inserted,     \* history: rows this request inserted
    untouched,    \* history: request returned Ok and no insert happened since
    preds,        \* history: resolutions of the same pair that ended just before
    lookupFailed, \* history: some get_triple in wander failed with a store error
    ctx,          \* history: get_examples' ts as chained and after dedup
    cin,          \* Pair::canonical on its own: the input
    cout          \* Pair::canonical on its own: the outputs so far

vars == <<strategy, store, pc, req, pair, tsa, p, calls, c, result, lookup,
          allFailed, oracleCalls, inserted, untouched, preds, lookupFailed, ctx,
          cin, cout>>

reqVars == <<strategy, store, pc, req, pair, tsa, p, calls, c, result, lookup,
             allFailed, oracleCalls, inserted, untouched, preds, lookupFailed, ctx>>

----------------------------------------------------------------------------
(* Bounds and input alphabets *)

\* rows the table may hold before new requests stop being admitted
MaxRows == 2

\* rows of the longest table get_examples is run on
CtxLen == 6
\* largest --samples value tried
MaxSamples == 4
\* longest operand, in bytes, given to Pair::canonical on its own
MaxLen == 2

\* the request tasks that may be in flight together
Reqs == {"r1", "r2"}

\* operands of requests: "K", "W"
Operands == {<<75>>, <<87>>}

\* bytes of the operands given to Pair::canonical on its own: "A", "a", " "
Alphabet == {65, 97, 32}

\* what the oracle may answer: " Q ", "Q", "S"
RawResponses == {<<32, 81, 32>>, <<81>>, <<83>>}

----------------------------------------------------------------------------
(* Strings *)

\* str::cmp: bytewise lexicographic order, s < t
StrLess(s, t) ==
    \E i \in 1..(Len(s) + 1) :
        /\ \A j \in 1..(i - 1) : j <= Len(t) /\ s[j] = t[j]
        /\ \/ i = Len(s) + 1 /\ i <= Len(t)
           \/ i <= Len(s) /\ i <= Len(t) /\ s[i] < t[i]

\* char::is_whitespace on the ASCII range
IsSpace(ch) == ch \in {9, 10, 11, 12, 13, 32}

RECURSIVE TrimStart(_)
TrimStart(s) ==
    IF s # <<>> /\ IsSpace(Head(s)) THEN TrimStart(Tail(s)) ELSE s

RECURSIVE TrimEnd(_)
TrimEnd(s) ==
    IF s # <<>> /\ IsSpace(s[Len(s)]) THEN TrimEnd(SubSeq(s, 1, Len(s) - 1)) ELSE s

\* "undefined"
UNDEF == <<117, 110, 100, 101, 102, 105, 110, 101, 100>>

process_result(s) == TrimEnd(TrimStart(s))

----------------------------------------------------------------------------
(* Pair, Triple, Strategy, results *)

Pair(x, y) == [a |-> x, b |-> y]

Triple(x, y, z) == [a |-> x, b |-> y, c |-> z]

\* the comparison is turned round: a ends up the lesser
\* the pair is kept in the order the request gave it
canonical_given_order(self) == self

canonical_lesser_first(self) ==
    IF StrLess(self.b, self.a) THEN Pair(self.b, self.a) ELSE self

canonical(self) ==
    IF StrLess(self.a, self.b) THEN Pair(self.b, self.a) ELSE self

Simple == [kind |-> "Simple"]

Sample(n) == [kind |-> "Sample", n |-> n]

Ok(v) == [ok |-> TRUE, val |-> v]

Err(e) == [ok |-> FALSE, err |-> e]

\* the AppError a handler returns, with the call whose error was converted
AppError(from, e) == [ok |-> FALSE, err |-> e, from |-> from]

\* no response yet
NoResult == [ok |-> FALSE, err |-> "none", from |-> "none"]

----------------------------------------------------------------------------
(* Answer store: the sqlx queries *)

\* sqlx error of fetch_one on an empty result set
RowNotFound == "RowNotFound"

\* any other sqlx error (pool, I/O)
DbError == "DbError"

\* first n elements (Iterator::take)
\* the iterator is collected whole, without take(n)
Take_unbounded(s, n) == s

Take(s, n) == SubSeq(s, 1, IF Len(s) < n THEN Len(s) ELSE n)

\* INSERT OR REPLACE on (a, b): the pair's older rows are deleted
insert_triple_replaces(st, a, b, z, io) ==
    IF io THEN Err(DbError)
    ELSE Ok(Append(SelectSeq(st, LAMBDA t : ~(t.a = a /\ t.b = b)), Triple(a, b, z)))

\* a UNIQUE (a, b) constraint: the insert fails when the pair has a row
insert_triple_unique(st, a, b, z, io) ==
    IF io \/ \E i \in 1..Len(st) : st[i].a = a /\ st[i].b = b THEN Err(DbError)
    ELSE Ok(Append(st, Triple(a, b, z)))

\* INSERT INTO triple (a, b, c) VALUES (?, ?, ?); io: the execute fails
insert_triple(st, a, b, z, io) ==
    IF io THEN Err(DbError) ELSE Ok(Append(st, Triple(a, b, z)))

\* the newest matching row is fetched instead of the oldest
get_triple_newest(st, a, b, io) ==
    LET rows == SelectSeq(st, LAMBDA t : t.a = a /\ t.b = b)
    IN  IF io THEN Err(DbError)
        ELSE IF rows = <<>> THEN Err(RowNotFound)
        ELSE Ok(rows[Len(rows)])

\* SELECT a, b, c FROM triple WHERE a = ? AND b = ?, fetch_one; io: the query fails
get_triple(st, a, b, io) ==
    LET rows == SelectSeq(st, LAMBDA t : t.a = a /\ t.b = b)
    IN  IF io THEN Err(DbError)
        ELSE IF rows = <<>> THEN Err(RowNotFound)
        ELSE Ok(Head(rows))

\* SELECT a, b, c FROM triple, fetch_all
get_triples(st, io) ==
    IF io THEN Err(DbError) ELSE Ok(st)

\* a failed query is taken for an empty result (unwrap_or_default)
find_triples_or_empty(st, x, io) ==
    IF io THEN Ok(<<>>)
    ELSE Ok(SelectSeq(st, LAMBDA t : t.a = x \/ t.b = x \/ t.c = x))

\* SELECT a, b, c FROM triple WHERE a = ? OR b = ? OR c = ?, fetch_all
find_triples(st, x, io) ==
    IF io THEN Err(DbError)
    ELSE Ok(SelectSeq(st, LAMBDA t : t.a = x \/ t.b = x \/ t.c = x))

----------------------------------------------------------------------------
(* Context and prompt *)

\* take(5) in get_examples
TakeLimit == 5

\* Vec::dedup: drops an element equal to the one kept before it
RECURSIVE Dedup(_)
Dedup(s) ==
    IF Len(s) <= 1 THEN s
    ELSE LET d == Dedup(SubSeq(s, 1, Len(s) - 1))
         IN  IF s[Len(s)] = d[Len(d)] THEN d ELSE Append(d, s[Len(s)])

\* tsa.chain(tsb) collected, then dedup
Merged(ta, tb) == Dedup(ta \o tb)

\* format!("% {} + {} = {}", x.a, x.b, x.c)
FormatLine(x) == <<37, 32>> \o x.a \o <<32, 43, 32>> \o x.b \o <<32, 61, 32>> \o x.c

\* Vec<String>::join("\n")
RECURSIVE Join(_)
Join(ls) ==
    IF ls = <<>> THEN <<>>
    ELSE IF Len(ls) = 1 THEN ls[1]
    ELSE ls[1] \o <<10>> \o Join(Tail(ls))

\* the value get_examples returns from the two query results
Examples(ta, tb) ==
    LET m == Merged(ta, tb)
    IN  Join([i \in 1..Len(m) |-> FormatLine(m[i])])

\* the fixed text of PROMPT up to {examples}, kept as its first line
PROMPT == "Welcome to the World Graph game!"

\* PROMPT rendered with PromptCtx {a, b, examples}: head, examples, "% {a} + {b} ="
prompt(a, b, examples) ==
    [head |-> PROMPT, examples |-> examples,
     cue |-> <<37, 32>> \o a \o <<32, 43, 32>> \o b \o <<32, 61>>]

----------------------------------------------------------------------------
(* Consensus *)

\* a completion future: not yet settled, or settled with its Result
Pending(pr) == [st |-> "pending", prompt |-> pr]

Settled(pr, res) == [st |-> "settled", prompt |-> pr, res |-> res]

\* error of Ollama::generate
OllamaError == "OllamaError"

\* what one completion call may settle to: generate's error, or
\* process_result of the response
completion_outcomes == {Err(OllamaError)} \cup {Ok(process_result(raw)) : raw \in RawResponses}

\* the range is taken as 0..n: as many calls as configured
NumCalls_as_configured(s) ==
    IF s.kind = "Simple" THEN 1 ELSE s.n

\* number of futures the strategy creates: one, or the length of (1..n)
NumCalls(s) ==
    IF s.kind = "Simple" THEN 1
    ELSE IF s.n > 1 THEN s.n - 1 ELSE 0

\* the await completes with the first future that settles (a select, not a join)
\* the join completes only if every future resolved Ok
Joined_all_ok(cs) == \A i \in 1..Len(cs) : cs[i].st = "settled" /\ cs[i].res.ok

Joined_first(cs) == cs = <<>> \/ \E i \in 1..Len(cs) : cs[i].st = "settled"

\* join_all / .await complete: every future has settled
Joined(cs) == \A i \in 1..Len(cs) : cs[i].st = "settled"

\* filter_map(Result::ok) over the results, in call order
Gens(cs) ==
    LET oks == SelectSeq(cs, LAMBDA x : x.st = "settled" /\ x.res.ok)
    IN  [i \in 1..Len(oks) |-> oks[i].res.val]

\* the HashMap built by the counting loop
Counts(gens) ==
    [g \in {gens[i] : i \in 1..Len(gens)} |->
        Cardinality({i \in 1..Len(gens) : gens[i] = g})]

\* min_by_key in place of max_by_key
MinByKey(counts) ==
    {g \in DOMAIN counts : \A h \in DOMAIN counts : counts[g] <= counts[h]}

\* max_by_key over the map's entries: the iteration order of a HashMap is
\* arbitrary, so any key with the greatest count may come out
MaxByKey(counts) ==
    {g \in DOMAIN counts : \A h \in DOMAIN counts : counts[h] <= counts[g]}

\* unwrap_or_default in place of the UNDEF fallback: the empty string
SampleAnswers_default(cs) ==
    LET counts == Counts(Gens(cs))
    IN  IF DOMAIN counts = {} THEN {<<>>} ELSE MaxByKey(counts)

\* the values c may take in the Sample arm: max_by_key's, or UNDEF for None
SampleAnswers(cs) ==
    LET counts == Counts(Gens(cs))
    IN  IF DOMAIN counts = {} THEN {UNDEF} ELSE MaxByKey(counts)

\* the Simple arm falls back to UNDEF as the Sample arm does
SimpleAnswer_falls_back(cs) ==
    IF cs[1].res.ok THEN Ok(cs[1].res.val) ELSE Ok(UNDEF)

\* the Simple arm: completion(..).await?
SimpleAnswer(cs) ==
    IF cs[1].res.ok THEN Ok(cs[1].res.val) ELSE AppError("completion", cs[1].res.err)

----------------------------------------------------------------------------
(* Handlers *)

NoPair == Pair(<<>>, <<>>)

NoPrompt == prompt(<<>>, <<>>, <<>>)

\* no context built
NoCtx == [chain |-> <<>>, kept |-> <<>>]

Strategies == {Simple} \cup {Sample(n) : n \in 0..MaxSamples}

\* byte strings of at most n bytes over Alphabet
Strings(n) == UNION {[1..k -> Alphabet] : k \in 0..n}

InitReqs(strategies) ==
    /\ strategy \in strategies
    /\ store = <<>>
    /\ pc = [r \in Reqs |-> "idle"]
    /\ req = [r \in Reqs |-> NoPair]
    /\ pair = [r \in Reqs |-> NoPair]
    /\ tsa = [r \in Reqs |-> <<>>]
    /\ p = [r \in Reqs |-> NoPrompt]
    /\ calls = [r \in Reqs |-> <<>>]
    /\ c = [r \in Reqs |-> <<>>]
    /\ result = [r \in Reqs |-> NoResult]
    /\ lookup = [r \in Reqs |-> "none"]
    /\ allFailed = [r \in Reqs |-> FALSE]
    /\ oracleCalls = [r \in Reqs |-> 0]
    /\ inserted = [r \in Reqs |-> <<>>]
    /\ untouched = [r \in Reqs |-> FALSE]
    /\ preds = [r \in Reqs |-> {}]
    /\ lookupFailed = FALSE
    /\ ctx = [r \in Reqs |-> NoCtx]

\* the strategies the concurrent server is started with
ConcStrategies == {Simple, Sample(0), Sample(2)}

Init ==
    /\ InitReqs(ConcStrategies)
    /\ cin = NoPair
    /\ cout = <<>>

InitSeq ==
    /\ InitReqs(Strategies)
    /\ cin = NoPair
    /\ cout = <<>>

\* requests that may still insert a row
InFlight == {q \in Reqs : pc[q] \notin {"idle", "done"}}

\* a request that will generate is admitted while the table has room for its row
Admit == Len(store) + Cardinality(InFlight) < MaxRows

\* a stored "undefined" is taken for a miss and generated again
wander_match_regenerates_undefined(res) ==
    IF res.ok /\ res.val.c # UNDEF THEN [ret |-> TRUE, val |-> Ok(res.val)] ELSE [ret |-> FALSE]

\* only RowNotFound is a miss: any other error of the lookup is returned (a ?)
wander_match_returns_db_error(res) ==
    IF res.ok THEN [ret |-> TRUE, val |-> Ok(res.val)]
    ELSE IF res.err = RowNotFound THEN [ret |-> FALSE]
    ELSE [ret |-> TRUE, val |-> AppError("get_triple", res.err)]

\* the match on get_triple's result in wander: return it, or go on to conjure
wander_match(res) ==
    IF res.ok THEN [ret |-> TRUE, val |-> Ok(res.val)] ELSE [ret |-> FALSE]

\* the resolutions of pair pr that returned Ok with no insert since
JustBefore(pr) ==
    {[triple |-> result[q].val, hit |-> lookup[q] = "hit", allFailed |-> allFailed[q]] :
        q \in {q \in Reqs : pc[q] = "done" /\ untouched[q] /\ pair[q] = pr}}

\* POST /wander up to the first of: the hit returned, conjure entered.
\* h: the history variables req, preds and untouched are kept
wander(r, h) ==
    /\ pc[r] \in {"idle", "done"}
    /\ \E a \in Operands, b \in Operands, io \in BOOLEAN :
        LET rq == Pair(a, b)
            pr == canonical(rq)
            res == get_triple(store, pr.a, pr.b, io)
            m == wander_match(res)
        IN  /\ ~m.ret => Admit
            /\ req' = [req EXCEPT ![r] = IF h THEN rq ELSE NoPair]
            /\ pair' = [pair EXCEPT ![r] = pr]
            /\ lookup' = [lookup EXCEPT ![r] =
                    IF res.ok THEN "hit"
                    ELSE IF res.err = RowNotFound THEN "absent" ELSE "ioerr"]
            /\ preds' = [preds EXCEPT ![r] = IF h THEN JustBefore(pr) ELSE {}]
            /\ pc' = [pc EXCEPT ![r] = IF m.ret THEN "done" ELSE "find_a"]
            /\ result' = [result EXCEPT ![r] = IF m.ret THEN m.val ELSE NoResult]
            /\ untouched' = [untouched EXCEPT ![r] = h /\ m.ret /\ m.val.ok]
            /\ lookupFailed' = (lookupFailed \/ (h /\ ~res.ok /\ res.err # RowNotFound))
    /\ ctx' = [ctx EXCEPT ![r] = NoCtx]
    /\ tsa' = [tsa EXCEPT ![r] = <<>>]
    /\ p' = [p EXCEPT ![r] = NoPrompt]
    /\ calls' = [calls EXCEPT ![r] = <<>>]
    /\ c' = [c EXCEPT ![r] = <<>>]
    /\ allFailed' = [allFailed EXCEPT ![r] = FALSE]
    /\ oracleCalls' = [oracleCalls EXCEPT ![r] = 0]
    /\ inserted' = [inserted EXCEPT ![r] = <<>>]
    /\ UNCHANGED <<strategy, store, cin, cout>>

\* the handler returns res: its locals are dropped
Return(r, res) ==
    /\ pc' = [pc EXCEPT ![r] = "done"]
    /\ result' = [result EXCEPT ![r] = res]
    /\ tsa' = [tsa EXCEPT ![r] = <<>>]
    /\ p' = [p EXCEPT ![r] = NoPrompt]
    /\ calls' = [calls EXCEPT ![r] = <<>>]
    /\ c' = [c EXCEPT ![r] = <<>>]
    /\ ctx' = [ctx EXCEPT ![r] = NoCtx]

\* get_examples: find_triples(pair.a).await?
conjure_find_a(r) ==
    /\ pc[r] = "find_a"
    /\ \E io \in BOOLEAN :
        LET res == find_triples(store, pair[r].a, io)
        IN  IF res.ok
            THEN /\ tsa' = [tsa EXCEPT ![r] = Take(res.val, TakeLimit)]
                 /\ pc' = [pc EXCEPT ![r] = "find_b"]
                 /\ UNCHANGED <<p, calls, c, result, ctx>>
            ELSE Return(r, AppError("find_triples", res.err))
    /\ UNCHANGED <<strategy, store, req, pair, lookup, allFailed, oracleCalls,
                   inserted, untouched, preds, lookupFailed, cin, cout>>

\* get_examples: find_triples(pair.b).await?, merge, dedup, render; prompt();
\* the strategy's completion futures are created and first polled
conjure_find_b(r) ==
    /\ pc[r] = "find_b"
    /\ \E io \in BOOLEAN :
        LET res == find_triples(store, pair[r].b, io)
        IN  IF res.ok
            THEN LET tsb == Take(res.val, TakeLimit)
                     examples == Examples(tsa[r], tsb)
                     pm == prompt(pair[r].a, pair[r].b, examples)
                     n == NumCalls(strategy)
                 IN  /\ p' = [p EXCEPT ![r] = pm]
                     /\ ctx' = [ctx EXCEPT ![r] =
                            [chain |-> tsa[r] \o tsb, kept |-> Merged(tsa[r], tsb)]]
                     /\ calls' = [calls EXCEPT ![r] = [i \in 1..n |-> Pending(pm)]]
                     /\ oracleCalls' = [oracleCalls EXCEPT ![r] = @ + n]
                     /\ tsa' = [tsa EXCEPT ![r] = <<>>]
                     /\ pc' = [pc EXCEPT ![r] = "join"]
                     /\ UNCHANGED <<c, result>>
            ELSE /\ Return(r, AppError("find_triples", res.err))
                 /\ UNCHANGED oracleCalls
    /\ UNCHANGED <<strategy, store, req, pair, lookup, allFailed,
                   inserted, untouched, preds, lookupFailed, cin, cout>>

\* one completion future settles: generate failed, or answered
completion(r) ==
    /\ pc[r] = "join"
    /\ \E i \in 1..Len(calls[r]), out \in completion_outcomes :
        /\ calls[r][i].st = "pending"
        /\ calls' = [calls EXCEPT ![r][i] = Settled(@.prompt, out)]
    /\ UNCHANGED <<strategy, store, pc, req, pair, tsa, p, c, result, lookup,
                   allFailed, oracleCalls, inserted, untouched, preds, lookupFailed,
                   ctx, cin, cout>>

\* the await on the strategy's futures completes and c is chosen
conjure_join(r) ==
    /\ pc[r] = "join"
    /\ Joined(calls[r])
    /\ IF strategy.kind = "Simple"
       THEN LET ans == SimpleAnswer(calls[r])
            IN  IF ans.ok
                THEN /\ c' = [c EXCEPT ![r] = ans.val]
                     /\ pc' = [pc EXCEPT ![r] = "insert"]
                     /\ UNCHANGED <<tsa, p, calls, result, allFailed, ctx>>
                ELSE /\ Return(r, ans)
                     /\ UNCHANGED allFailed
       ELSE \E ans \in SampleAnswers(calls[r]) :
                /\ c' = [c EXCEPT ![r] = ans]
                /\ allFailed' = [allFailed EXCEPT ![r] =
                        \A i \in 1..Len(calls[r]) :
                            ~(calls[r][i].st = "settled" /\ calls[r][i].res.ok)]
                /\ pc' = [pc EXCEPT ![r] = "insert"]
                /\ UNCHANGED <<tsa, p, calls, result, ctx>>
    /\ UNCHANGED <<strategy, store, req, pair, lookup, oracleCalls,
                   inserted, untouched, preds, lookupFailed, cin, cout>>

\* the insert's Result is dropped (no ?): the Triple is returned even if it failed
conjure_return_ignores_insert(ins, t) == Ok(t)

\* what conjure returns after insert_triple(..).await?
conjure_return(ins, t) ==
    IF ins.ok THEN Ok(t) ELSE AppError("insert_triple", ins.err)

\* insert_triple(pair.a, pair.b, c).await?, then the Triple is returned
conjure_insert(r, h) ==
    /\ pc[r] = "insert"
    /\ \E io \in BOOLEAN :
        LET ins == insert_triple(store, pair[r].a, pair[r].b, c[r], io)
            ret == conjure_return(ins, Triple(pair[r].a, pair[r].b, c[r]))
        IN  /\ store' = IF ins.ok THEN ins.val ELSE store
            /\ inserted' = [inserted EXCEPT ![r] =
                    IF ins.ok THEN Append(@, Triple(pair[r].a, pair[r].b, c[r])) ELSE @]
            /\ untouched' = IF ins.ok THEN [q \in Reqs |-> h /\ q = r /\ ret.ok]
                            ELSE [untouched EXCEPT ![r] = FALSE]
            /\ Return(r, ret)
    /\ UNCHANGED <<strategy, req, pair, lookup, allFailed, oracleCalls, preds,
                   lookupFailed, cin, cout>>

\* GET /explore
explore(r) ==
    /\ pc[r] \in {"idle", "done"}
    /\ \E io \in BOOLEAN :
        LET res == get_triples(store, io)
        IN  Return(r, IF res.ok THEN res ELSE AppError("get_triples", res.err))
    /\ req' = [req EXCEPT ![r] = NoPair]
    /\ pair' = [pair EXCEPT ![r] = NoPair]
    /\ lookup' = [lookup EXCEPT ![r] = "explore"]
    /\ allFailed' = [allFailed EXCEPT ![r] = FALSE]
    /\ oracleCalls' = [oracleCalls EXCEPT ![r] = 0]
    /\ inserted' = [inserted EXCEPT ![r] = <<>>]
    /\ untouched' = [untouched EXCEPT ![r] = FALSE]
    /\ preds' = [preds EXCEPT ![r] = {}]
    /\ UNCHANGED <<strategy, store, lookupFailed, cin, cout>>

\* the server with its request tasks running concurrently
Next ==
    \E r \in Reqs :
        \/ wander(r, FALSE)
        \/ conjure_find_a(r)
        \/ conjure_find_b(r)
        \/ completion(r)
        \/ conjure_join(r)
        \/ conjure_insert(r, FALSE)
        \/ explore(r)

Spec == Init /\ [][Next]_vars

\* the server answering one request at a time
NextSeq ==
    \/ wander("r1", TRUE)
    \/ conjure_find_a("r1")
    \/ conjure_find_b("r1")
    \/ completion("r1")
    \/ conjure_join("r1")
    \/ conjure_insert("r1", TRUE)
    \/ explore("r1")

SpecSeq == InitSeq /\ [][NextSeq]_vars

\* the server answering one request at a time when every await of the request
\* task completes: the pool answers every query and every dispatched
\* completion settles
Fairness ==
    /\ WF_vars(conjure_find_a("r1"))
    /\ WF_vars(conjure_find_b("r1"))
    /\ WF_vars(completion("r1"))
    /\ WF_vars(conjure_join("r1"))
    /\ WF_vars(conjure_insert("r1", TRUE))

SpecFair == InitSeq /\ [][NextSeq]_vars /\ Fairness

----------------------------------------------------------------------------
(* Pair::canonical on its own *)

InitCanon ==
    /\ InitReqs({Simple})
    /\ cin \in {Pair(x, y) : x \in Strings(MaxLen), y \in Strings(MaxLen)}
    /\ cout = <<>>

\* canonical of the pair as given
canonical_given ==
    /\ cout = <<>>
    /\ cout' = <<canonical(cin)>>
    /\ UNCHANGED <<reqVars, cin>>

\* canonical of the pair with its operands exchanged
canonical_swapped ==
    /\ Len(cout) = 1
    /\ cout' = Append(cout, canonical(Pair(cin.b, cin.a)))
    /\ UNCHANGED <<reqVars, cin>>

\* canonical of the first result
canonical_again ==
    /\ Len(cout) = 2
    /\ cout' = Append(cout, canonical(cout[1]))
    /\ UNCHANGED <<reqVars, cin>>

NextCanon == canonical_given \/ canonical_swapped \/ canonical_again

SpecCanon == InitCanon /\ [][NextCanon]_vars

----------------------------------------------------------------------------
(* get_examples on its own, over a table that already holds rows *)

\* the rows the tables are made of
CtxRows ==
    {Triple(<<87>>, <<75>>, <<81>>), Triple(<<87>>, <<87>>, <<81>>),
     Triple(<<75>>, <<75>>, <<83>>)}

\* a request that missed enters get_examples(&state.pool, &pair)
InitCtx ==
    \E st \in UNION {[1..k -> CtxRows] : k \in 0..CtxLen}, a \in Operands, b \in Operands :
        LET pr == canonical(Pair(a, b))
            entered(x, y) == [r \in Reqs |-> IF r = "r1" THEN x ELSE y]
        IN  /\ strategy = Simple
            /\ store = st
            /\ pc = entered("find_a", "idle")
            /\ req = [r \in Reqs |-> NoPair]
            /\ pair = entered(pr, NoPair)
            /\ tsa = [r \in Reqs |-> <<>>]
            /\ p = [r \in Reqs |-> NoPrompt]
            /\ calls = [r \in Reqs |-> <<>>]
            /\ c = [r \in Reqs |-> <<>>]
            /\ result = [r \in Reqs |-> NoResult]
            /\ lookup = entered(IF get_triple(st, pr.a, pr.b, FALSE).ok
                                THEN "ioerr" ELSE "absent", "none")
            /\ allFailed = [r \in Reqs |-> FALSE]
            /\ oracleCalls = [r \in Reqs |-> 0]
            /\ inserted = [r \in Reqs |-> <<>>]
            /\ untouched = [r \in Reqs |-> FALSE]
            /\ preds = [r \in Reqs |-> {}]
            /\ lookupFailed = FALSE
            /\ ctx = [r \in Reqs |-> NoCtx]
            /\ cin = NoPair
            /\ cout = <<>>

NextCtx == conjure_find_a("r1") \/ conjure_find_b("r1")

SpecCtx == InitCtx /\ [][NextCtx]_vars

----------------------------------------------------------------------------
(* Claims *)

\* the rows of st for the pair (a, b)
RowsFor(st, a, b) == {i \in 1..Len(st) : st[i].a = a /\ st[i].b = b}

\* what request r holds; a step that changes it is a step of r
Slot(r) ==
    <<pc[r], req[r], pair[r], tsa[r], p[r], calls[r], c[r], result[r], lookup[r],
      allFailed[r], oracleCalls[r], inserted[r], preds[r], ctx[r]>>

\* request r has returned from wander
Returned(r) == pc[r] = "done" /\ lookup[r] \in {"hit", "absent", "ioerr"}

\* C1: whenever get_triple succeeds in wander, the request returns at once a
\* row the table holds for its canonical pair, has called the oracle zero
\* times and has inserted nothing, and that step leaves the table as it was;
\* this holds for every stored c, "undefined" included.
C1_CacheHit ==
    /\ [](\A r \in Reqs : lookup[r] = "hit" =>
            /\ pc[r] = "done"
            /\ result[r].ok
            /\ \E i \in RowsFor(store, pair[r].a, pair[r].b) : store[i] = result[r].val
            /\ oracleCalls[r] = 0
            /\ inserted[r] = <<>>)
    /\ [][\A r \in Reqs : (Slot(r)' # Slot(r) /\ lookup'[r] = "hit") => store' = store]_vars

\* C1 witness: a hit has returned a stored row whose c is "undefined"
C1_Witness ==
    \E r \in Reqs :
        /\ lookup[r] = "hit"
        /\ pc[r] = "done"
        /\ result[r].ok
        /\ result[r].val.c = UNDEF
        /\ oracleCalls[r] = 0

\* C2: a miss that returned a Triple has inserted exactly that Triple, which
\* the table holds; the step out of the insert returns Ok only together with
\* the append of (pair.a, pair.b, c), and with the table unchanged (the insert
\* failed) it returns insert_triple's error and no Triple.
C2_PersistBeforeReturn ==
    /\ [](\A r \in Reqs : (Returned(r) /\ lookup[r] # "hit" /\ result[r].ok) =>
            /\ inserted[r] = <<result[r].val>>
            /\ \E i \in 1..Len(store) : store[i] = result[r].val)
    /\ [][\A r \in Reqs : (pc[r] = "insert" /\ pc'[r] = "done") =>
            LET t == Triple(pair[r].a, pair[r].b, c[r])
            IN  IF store' = store
                THEN ~result'[r].ok /\ result'[r].from = "insert_triple"
                ELSE store' = Append(store, t) /\ result'[r] = Ok(t)]_vars

\* C2 witness: a miss has returned the Triple it inserted
C2_Witness ==
    \E r \in Reqs :
        /\ Returned(r)
        /\ lookup[r] = "absent"
        /\ result[r].ok
        /\ inserted[r] = <<result[r].val>>
        /\ store[Len(store)] = result[r].val

\* the first row the table holds for r's pair
FirstRow(r) ==
    LET rows == RowsFor(store, pair[r].a, pair[r].b)
    IN  store[CHOOSE i \in rows : \A j \in rows : i <= j]

\* C3 as stated: a resolution that succeeds right after a successful
\* resolution of the same pair, the table untouched in between, returns the
\* same Triple and is a pure hit (no oracle call, no insert).
C3_Original ==
    \A r \in Reqs : (Returned(r) /\ result[r].ok) =>
        \A pd \in preds[r] :
            /\ result[r].val = pd.triple
            /\ lookup[r] = "hit"
            /\ oracleCalls[r] = 0
            /\ inserted[r] = <<>>

\* C3 amended: a resolution that succeeds right after a successful
\* resolution of the same pair, the table untouched in between, and whose
\* lookup did not fail with a store error, is a pure hit returning the first
\* row stored for the pair; that is the Triple of the resolution before it
\* when that one was a hit or the pair has a single row.
C3_Idempotence ==
    \A r \in Reqs : (Returned(r) /\ result[r].ok /\ lookup[r] # "ioerr") =>
        \A pd \in preds[r] :
            /\ lookup[r] = "hit"
            /\ oracleCalls[r] = 0
            /\ inserted[r] = <<>>
            /\ result[r].val = FirstRow(r)
            /\ (pd.hit \/ Cardinality(RowsFor(store, pair[r].a, pair[r].b)) = 1)
                    => result[r].val = pd.triple

\* C3 witness: a miss inserted the row and the next resolution of the pair
\* returned it as a hit
C3_Witness ==
    \E r \in Reqs :
        /\ Returned(r)
        /\ lookup[r] = "hit"
        /\ \E pd \in preds[r] : ~pd.hit /\ pd.triple = result[r].val

\* bytewise lexicographic s <= t, by recursion on the first byte
RECURSIVE LexLeq(_, _)
LexLeq(s, t) ==
    IF s = <<>> THEN TRUE
    ELSE IF t = <<>> THEN FALSE
    ELSE IF Head(s) # Head(t) THEN Head(s) < Head(t)
    ELSE LexLeq(Tail(s), Tail(t))

\* C4: canonical({x,y}) has the operands x and y with a the greater and b the
\* lesser; equal operands are left as they are; canonical({y,x}) is the same
\* pair; and canonical of the result is the result.
C4_Canonical ==
    /\ Len(cout) >= 1 =>
        /\ cout[1] \in {cin, Pair(cin.b, cin.a)}
        /\ LexLeq(cout[1].b, cout[1].a)
        /\ cin.a = cin.b => cout[1] = cin
    /\ Len(cout) >= 2 => cout[2] = cout[1]
    /\ Len(cout) >= 3 => cout[3] = cout[1]

\* C4 witness: a pair given lesser-first, one operand a proper prefix of the
\* other, has been exchanged, and all three applications agree
C4_Witness ==
    /\ Len(cout) = 3
    /\ cin.a # <<>>
    /\ Len(cin.a) < Len(cin.b)
    /\ cout[1] = Pair(cin.b, cin.a)
    /\ cout[2] = cout[1]
    /\ cout[3] = cout[1]

\* r is past the dispatch of its oracle calls
Dispatched(r) ==
    \/ pc[r] \in {"join", "insert"}
    \/ Returned(r) /\ lookup[r] # "hit" /\ (result[r].ok \/ result[r].from # "find_triples")

\* C5: under Sample(n), n >= 1, a miss that reached the strategy has issued
\* exactly n - 1 completion calls, every one with the request's prompt; they
\* are issued in one step, and the count never changes afterwards in the request.
C5_SampleCallCount ==
    /\ [](\A r \in Reqs : (strategy.kind = "Sample" /\ strategy.n >= 1 /\ Dispatched(r)) =>
            /\ oracleCalls[r] = strategy.n - 1
            /\ pc[r] \in {"join", "insert"} =>
                /\ Len(calls[r]) = strategy.n - 1
                /\ \A i \in 1..Len(calls[r]) : calls[r][i].prompt = p[r])
    /\ [][\A r \in Reqs :
            (strategy.kind = "Sample" /\ strategy.n >= 1 /\ oracleCalls'[r] # oracleCalls[r]) =>
                \/ pc'[r] \in {"find_a", "done"} /\ oracleCalls'[r] = 0
                \/ /\ pc[r] = "find_b"
                   /\ pc'[r] = "join"
                   /\ oracleCalls[r] = 0
                   /\ oracleCalls'[r] = strategy.n - 1
                   /\ calls'[r] = [i \in 1..(strategy.n - 1) |-> Pending(p'[r])]]_vars

\* C5 witness: Sample(3) has joined exactly 2 calls
C5_Witness ==
    \E r \in Reqs :
        /\ strategy = Sample(3)
        /\ pc[r] = "insert"
        /\ oracleCalls[r] = 2
        /\ Len(calls[r]) = 2

\* the answers of r's calls that settled Ok
Successes(r) ==
    {calls[r][i].res.val : i \in {j \in 1..Len(calls[r]) :
                                    calls[r][j].st = "settled" /\ calls[r][j].res.ok}}

\* C6: under Sample(n), c is chosen and the insert is reached only with every
\* dispatched call settled; a call that settles, failed or not, changes nothing
\* but itself (no sibling, no abort of the request); no request fails with a
\* completion error; a failed call only leaves the pool c is chosen from.
C6_JoinAll ==
    /\ [](\A r \in Reqs : strategy.kind = "Sample" =>
            /\ pc[r] = "insert" =>
                /\ Len(calls[r]) = oracleCalls[r]
                /\ \A i \in 1..Len(calls[r]) : calls[r][i].st = "settled"
                /\ c[r] \in Successes(r) \/ (Successes(r) = {} /\ c[r] = UNDEF)
            /\ (pc[r] = "done" /\ ~result[r].ok) => result[r].from # "completion")
    /\ [][\A r \in Reqs : (strategy.kind = "Sample" /\ pc[r] = "join") =>
            /\ pc'[r] \in {"join", "insert"}
            /\ pc'[r] = "insert" =>
                \A i \in 1..Len(calls[r]) : calls[r][i].st = "settled"
            /\ calls'[r] # calls[r] =>
                /\ pc'[r] = "join"
                /\ Len(calls'[r]) = Len(calls[r])
                /\ \E i \in 1..Len(calls[r]) :
                    /\ calls[r][i].st = "pending"
                    /\ calls'[r][i].st = "settled"
                    /\ \A j \in 1..Len(calls[r]) : j # i => calls'[r][j] = calls[r][j]]_vars

\* C6 witness: the insert is reached after one call failed and a sibling answered
C6_Witness ==
    \E r \in Reqs :
        /\ strategy.kind = "Sample"
        /\ pc[r] = "insert"
        /\ \E i \in 1..Len(calls[r]) : ~calls[r][i].res.ok
        /\ c[r] \in Successes(r)

\* how many of r's calls answered g
Votes(r, g) ==
    Cardinality({i \in 1..Len(calls[r]) :
        calls[r][i].st = "settled" /\ calls[r][i].res.ok /\ calls[r][i].res.val = g})

\* C7: under Sample(n) with at least one call answered, c is one of the
\* trimmed answers and no other answer has more votes than c.
C7_MajorityVote ==
    \A r \in Reqs :
        (strategy.kind = "Sample" /\ pc[r] = "insert" /\ Successes(r) # {}) =>
            /\ c[r] \in Successes(r)
            /\ \A g \in Successes(r) : Votes(r, g) <= Votes(r, c[r])

\* C7 witness: c won with two votes against an answer with one
C7_Witness ==
    \E r \in Reqs :
        /\ strategy.kind = "Sample"
        /\ pc[r] = "insert"
        /\ Votes(r, c[r]) = 2
        /\ \E g \in Successes(r) : g # c[r] /\ Votes(r, g) = 1

\* the sentinel row of r's pair
UndefRow(r) == Triple(pair[r].a, pair[r].b, UNDEF)

\* C8 as stated: under Sample(n) with every call failed c is "undefined" and
\* a Triple returned is the inserted row (a, b, "undefined"); the resolution
\* of the same pair that follows is a hit returning (a, b, "undefined")
\* without an oracle call.
C8_Original ==
    \A r \in Reqs :
        /\ (pc[r] = "insert" /\ allFailed[r]) => c[r] = UNDEF
        /\ (Returned(r) /\ allFailed[r] /\ result[r].ok) =>
                result[r].val = UndefRow(r) /\ inserted[r] = <<UndefRow(r)>>
        /\ lookup[r] \in {"hit", "absent", "ioerr"} =>
                \A pd \in preds[r] : pd.allFailed =>
                    /\ lookup[r] = "hit"
                    /\ result[r] = Ok(UndefRow(r))
                    /\ oracleCalls[r] = 0

\* C8 amended: under Sample(n) with every call failed c is "undefined" and
\* a Triple returned is the inserted row (a, b, "undefined"); the resolution
\* of the same pair that follows, unless its lookup fails with a store error,
\* is a hit without an oracle call; it returns the first row stored for the
\* pair, which is (a, b, "undefined") when the pair has no other row.
C8_Sentinel ==
    \A r \in Reqs :
        /\ (pc[r] = "insert" /\ allFailed[r]) => c[r] = UNDEF
        /\ (Returned(r) /\ allFailed[r] /\ result[r].ok) =>
                /\ result[r].val = UndefRow(r)
                /\ inserted[r] = <<UndefRow(r)>>
                /\ \E i \in 1..Len(store) : store[i] = UndefRow(r)
        /\ (lookup[r] \in {"hit", "absent"}) =>
                \A pd \in preds[r] : pd.allFailed =>
                    /\ lookup[r] = "hit"
                    /\ pc[r] = "done"
                    /\ oracleCalls[r] = 0
                    /\ inserted[r] = <<>>
                    /\ result[r] = Ok(FirstRow(r))
                    /\ pd.triple = UndefRow(r)
                    /\ Cardinality(RowsFor(store, pair[r].a, pair[r].b)) = 1
                            => result[r] = Ok(UndefRow(r))

\* C8 witness: under Sample(3) both calls failed, (a, b, "undefined") was
\* inserted and returned, and the next resolution of the pair returned it as a hit
C8_Witness ==
    \E r \in Reqs :
        /\ strategy = Sample(3)
        /\ Returned(r)
        /\ lookup[r] = "hit"
        /\ oracleCalls[r] = 0
        /\ result[r] = Ok(UndefRow(r))
        /\ \E pd \in preds[r] : pd.allFailed /\ ~pd.hit

\* c is raw with the whitespace at both ends, and nothing else, removed
TrimOf(z, raw) ==
    /\ z # <<>> => ~IsSpace(z[1]) /\ ~IsSpace(z[Len(z)])
    /\ \E i \in 0..Len(raw) :
        /\ i + Len(z) <= Len(raw)
        /\ \A j \in 1..Len(raw) :
            IF j > i /\ j <= i + Len(z) THEN raw[j] = z[j - i] ELSE IsSpace(raw[j])

\* C9: under Simple a miss that reached the strategy has issued exactly one
\* completion call and c is its trimmed response; when the call fails the
\* request returns the completion error, no row is inserted, the table is as
\* it was, and no "undefined" is ever stored.
C9_Single ==
    /\ [](\A r \in Reqs : strategy.kind = "Simple" =>
            /\ Dispatched(r) => oracleCalls[r] = 1
            /\ pc[r] \in {"join", "insert"} => Len(calls[r]) = 1
            /\ pc[r] = "insert" =>
                /\ calls[r][1].res.ok
                /\ c[r] = calls[r][1].res.val
                /\ \E raw \in RawResponses : TrimOf(c[r], raw)
            /\ (Returned(r) /\ ~result[r].ok /\ result[r].from = "completion") =>
                inserted[r] = <<>>
            /\ \A i \in 1..Len(store) : store[i].c # UNDEF)
    /\ [][\A r \in Reqs :
            (strategy.kind = "Simple" /\ pc[r] = "join" /\ pc'[r] # "join") =>
                IF calls[r][1].res.ok
                THEN pc'[r] = "insert"
                ELSE /\ pc'[r] = "done"
                     /\ result'[r] = AppError("completion", OllamaError)
                     /\ store' = store]_vars

\* C9 witness: under Simple the one call failed and the request returned the error
C9_Witness ==
    \E r \in Reqs :
        /\ strategy.kind = "Simple"
        /\ Returned(r)
        /\ lookup[r] = "absent"
        /\ oracleCalls[r] = 1
        /\ result[r] = AppError("completion", OllamaError)
        /\ inserted[r] = <<>>
        /\ store = <<>>

\* C10: a lookup that fails, by RowNotFound or by a store error, enters
\* conjure with nothing returned and the table as it was, the same way for
\* both; the lookup's error is never what the request returns.
C10_LookupFailureIsMiss ==
    /\ [](\A r \in Reqs :
            /\ lookup[r] \in {"absent", "ioerr"} => pc[r] # "idle"
            /\ (pc[r] = "done" /\ ~result[r].ok) => result[r].from # "get_triple")
    /\ [][\A r \in Reqs :
            (Slot(r)' # Slot(r) /\ pc[r] \in {"idle", "done"} /\ lookup'[r] \in {"absent", "ioerr"}) =>
                /\ pc'[r] = "find_a"
                /\ result'[r] = NoResult
                /\ oracleCalls'[r] = 0
                /\ inserted'[r] = <<>>
                /\ store' = store]_vars

\* C10 witness: a lookup failed with a store error while the pair had a row,
\* and the request generated, inserted a second row for the pair and returned it
C10_Witness ==
    \E r \in Reqs :
        /\ Returned(r)
        /\ lookup[r] = "ioerr"
        /\ result[r].ok
        /\ inserted[r] = <<result[r].val>>
        /\ Cardinality(RowsFor(store, pair[r].a, pair[r].b)) = 2

\* C11: in every interleaving of resolve and enumerate requests a step
\* leaves the table as it is or appends one row to it; it appends exactly when
\* a request that resolved a miss returns a Triple, and the row is that
\* Triple; a request that ends as a hit, an enumeration or an error has
\* inserted nothing.
C11_AppendOnly ==
    /\ [](\A r \in Reqs : pc[r] = "done" =>
            IF lookup[r] \in {"absent", "ioerr"} /\ result[r].ok
            THEN /\ inserted[r] = <<result[r].val>>
                 /\ \E i \in 1..Len(store) : store[i] = result[r].val
            ELSE inserted[r] = <<>>)
    /\ [][/\ Len(store') >= Len(store)
          /\ Len(store') <= Len(store) + 1
          /\ \A i \in 1..Len(store) : store'[i] = store[i]
          /\ \A r \in Reqs : (Slot(r)' # Slot(r) /\ pc'[r] = "done") =>
                IF lookup'[r] \in {"absent", "ioerr"} /\ result'[r].ok
                THEN store' = Append(store, result'[r].val)
                ELSE store' = store
          /\ store' # store =>
                \E r \in Reqs : pc[r] = "insert" /\ pc'[r] = "done" /\ result'[r].ok]_vars

\* C11 witness: with the table holding two rows, one request has returned
\* the row it inserted after a miss and another has enumerated the table
C11_Witness ==
    \E r \in Reqs, q \in Reqs :
        /\ Len(store) = 2
        /\ pc[r] = "done"
        /\ lookup[r] = "absent"
        /\ result[r].ok
        /\ inserted[r] = <<store[2]>>
        /\ pc[q] = "done"
        /\ lookup[q] = "explore"
        /\ result[q] = Ok(store)
        /\ inserted[q] = <<>>

\* C12: nothing keeps a request that reached the insert from appending its
\* row, whatever rows the table holds for its pair; a lookup that does not
\* fail with a store error is a hit whenever the pair has a row, two rows
\* included, and returns one of the pair's rows.
C12_RacingMisses ==
    /\ [](\A r \in Reqs :
            /\ pc[r] = "insert" =>
                ENABLED (conjure_insert(r, FALSE) /\ Len(store') = Len(store) + 1)
            /\ lookup[r] = "hit" =>
                \E i \in RowsFor(store, pair[r].a, pair[r].b) : store[i] = result[r].val)
    /\ [][\A r \in Reqs :
            (Slot(r)' # Slot(r) /\ pc[r] \in {"idle", "done"} /\ lookup'[r] = "absent") =>
                RowsFor(store, pair'[r].a, pair'[r].b) = {}]_vars

\* C12 witness: two requests missed the same pair on the empty table, each
\* generated and inserted, the two rows differ in c, and a later lookup of
\* the pair returned one of them
C12_Witness ==
    \E r \in Reqs, q \in Reqs :
        /\ Len(store) = 2
        /\ store[1].a = store[2].a
        /\ store[1].b = store[2].b
        /\ store[1].c # store[2].c
        /\ pc[q] = "done"
        /\ lookup[q] = "absent"
        /\ inserted[q] = <<store[2]>>
        /\ pc[r] = "done"
        /\ lookup[r] = "hit"
        /\ pair[r] = pair[q]
        /\ result[r].val \in {store[1], store[2]}

\* C13: every Triple a resolve request returns, on a hit as on a miss, has
\* a >= b, and its a and b are the two operands of the request, in the
\* request's order or swapped.
C13_CanonicalResponse ==
    \A r \in Reqs : (Returned(r) /\ result[r].ok) =>
        /\ LexLeq(result[r].val.b, result[r].val.a)
        /\ \/ result[r].val.a = req[r].a /\ result[r].val.b = req[r].b
           \/ result[r].val.a = req[r].b /\ result[r].val.b = req[r].a

\* C13 witness: a request that gave the lesser operand first got, on a hit,
\* the Triple with the operands swapped
C13_Witness ==
    \E r \in Reqs :
        /\ Returned(r)
        /\ lookup[r] = "hit"
        /\ result[r].ok
        /\ req[r].a # req[r].b
        /\ LexLeq(req[r].a, req[r].b)
        /\ result[r].val.a = req[r].b
        /\ result[r].val.b = req[r].a

\* C16: from the empty table, in every interleaving of requests, every row
\* has a >= b, so the table never holds a row (x, y, _) together with a row
\* (y, x, _) for x # y.
C16_CanonicalStore ==
    /\ \A i \in 1..Len(store) : LexLeq(store[i].b, store[i].a)
    /\ \A i \in 1..Len(store), j \in 1..Len(store) :
            (store[i].a = store[j].b /\ store[i].b = store[j].a) => store[i].a = store[i].b

\* C16 witness: two requests have each inserted a row, and one of the rows
\* has different operands
C16_Witness ==
    \E r \in Reqs, q \in Reqs :
        /\ r # q
        /\ Len(store) = 2
        /\ inserted[r] = <<store[1]>>
        /\ inserted[q] = <<store[2]>>
        /\ store[2].a # store[2].b

\* C18: under Sample(0) and Sample(1) no request ever dispatches an oracle
\* call; a miss reaches the insert with c = "undefined", every Triple a miss
\* returns is (a, b, "undefined") and is the row it inserted, and every row
\* of the table has c = "undefined".
C18_DegenerateSample ==
    (strategy.kind = "Sample" /\ strategy.n <= 1) =>
        /\ \A r \in Reqs :
            /\ oracleCalls[r] = 0
            /\ calls[r] = <<>>
            /\ pc[r] = "insert" => c[r] = UNDEF
            /\ (Returned(r) /\ lookup[r] # "hit" /\ result[r].ok) =>
                /\ result[r].val = UndefRow(r)
                /\ inserted[r] = <<UndefRow(r)>>
        /\ \A i \in 1..Len(store) : store[i].c = UNDEF

\* C18 witness: under Sample(1) a miss has returned (a, b, "undefined") with
\* no oracle call, and that row is in the table
C18_Witness ==
    \E r \in Reqs :
        /\ strategy = Sample(1)
        /\ Returned(r)
        /\ lookup[r] = "absent"
        /\ result[r] = Ok(UndefRow(r))
        /\ oracleCalls[r] = 0
        /\ store[Len(store)] = UndefRow(r)

\* the rows of st that x occurs in
MatchingRows(st, x) == SelectSeq(st, LAMBDA t : x \in {t.a, t.b, t.c})

\* C19: a miss goes through context retrieval for pair.a, context retrieval
\* for pair.b, prompt and oracle calls, insert, in this order: no call is
\* dispatched and no prompt exists while the context is being retrieved, the
\* prompt the calls carry holds the context retrieved from the table, and
\* nothing is written before the insert step; a request whose context lookup
\* fails returns that store error at that step with zero oracle calls and no
\* row inserted.
C19_MissOrder ==
    /\ [](\A r \in Reqs :
            /\ pc[r] \in {"find_a", "find_b"} =>
                /\ p[r] = NoPrompt
                /\ calls[r] = <<>>
                /\ oracleCalls[r] = 0
                /\ inserted[r] = <<>>
            /\ pc[r] = "find_b" => tsa[r] = Take(MatchingRows(store, pair[r].a), TakeLimit)
            /\ pc[r] \in {"join", "insert"} =>
                /\ p[r].examples = Examples(Take(MatchingRows(store, pair[r].a), TakeLimit),
                                            Take(MatchingRows(store, pair[r].b), TakeLimit))
                /\ \A i \in 1..Len(calls[r]) : calls[r][i].prompt = p[r]
                /\ inserted[r] = <<>>
            /\ (Returned(r) /\ ~result[r].ok /\ result[r].from = "find_triples") =>
                /\ result[r].err = DbError
                /\ oracleCalls[r] = 0
                /\ inserted[r] = <<>>)
    /\ [][\A r \in Reqs :
            /\ pc'[r] # pc[r] =>
                \/ pc[r] \in {"idle", "done"} /\ pc'[r] \in {"find_a", "done"}
                \/ pc[r] = "find_a" /\ pc'[r] \in {"find_b", "done"}
                \/ pc[r] = "find_b" /\ pc'[r] \in {"join", "done"}
                \/ pc[r] = "join" /\ pc'[r] \in {"insert", "done"}
                \/ pc[r] = "insert" /\ pc'[r] = "done"
            /\ pc[r] \in {"find_a", "find_b", "join"} => store' = store
            /\ (pc[r] \in {"find_a", "find_b"} /\ pc'[r] = "done") =>
                /\ result'[r] = AppError("find_triples", DbError)
                /\ oracleCalls'[r] = 0
                /\ inserted'[r] = <<>>]_vars

\* C19 witness: with a row in the table, a miss has ended in the store error
\* of a context lookup, with no oracle call and nothing inserted
C19_Witness ==
    \E r \in Reqs :
        /\ Returned(r)
        /\ lookup[r] \in {"absent", "ioerr"}
        /\ result[r] = AppError("find_triples", DbError)
        /\ oracleCalls[r] = 0
        /\ inserted[r] = <<>>
        /\ Len(store) = 1

\* C17: with requests answered one at a time from the empty table, as long
\* as no lookup in wander has failed with a store error the table holds at
\* most one row for every pair (a, b).
C17_SequentialUnique ==
    ~lookupFailed =>
        \A i \in 1..Len(store) : RowsFor(store, store[i].a, store[i].b) = {i}

\* C17 witness: no lookup has failed, the table holds rows of two pairs, and
\* the last request was a hit on one of them
C17_Witness ==
    \E r \in Reqs :
        /\ ~lookupFailed
        /\ Len(store) = 2
        /\ Returned(r)
        /\ lookup[r] = "hit"
        /\ result[r].val = store[1]

\* the k-th least element of the set of numbers S
Nth(S, k) == CHOOSE i \in S : Cardinality({j \in S : j < i}) = k - 1

\* the elements of s at the positions in S, in order
SubSeqAt(s, S) == [k \in 1..Cardinality(S) |-> s[Nth(S, k)]]

\* the first n rows of st that x occurs in
FirstMatching(st, x, n) ==
    LET idx == {i \in 1..Len(st) : x \in {st[i].a, st[i].b, st[i].c}}
    IN  SubSeqAt(st, {i \in idx : Cardinality({j \in idx : j < i}) < n})

\* s without the entries equal to the entry just before them
Collapsed(s) == SubSeqAt(s, {i \in 1..Len(s) : i = 1 \/ s[i] # s[i - 1]})

\* C14: the context get_examples builds is the first 5 rows of the table that
\* pair.a occurs in followed by the first 5 rows that pair.b occurs in, at
\* most 10 entries; what is rendered is that sequence with every entry equal
\* to the one just before it removed, so it has no two equal neighbours.
C14_ContextBounds ==
    \A r \in Reqs : pc[r] = "join" =>
        LET ta == FirstMatching(store, pair[r].a, 5)
            tb == FirstMatching(store, pair[r].b, 5)
            kept == ctx[r].kept
        IN  /\ ctx[r].chain = ta \o tb
            /\ Len(ctx[r].chain) <= 10
            /\ kept = Collapsed(ctx[r].chain)
            /\ \A i \in 1..(Len(kept) - 1) : kept[i] # kept[i + 1]
            /\ p[r].examples = Join([i \in 1..Len(kept) |-> FormatLine(kept[i])])

\* C14 witness: pair.a occurs in more than 5 rows, the context was built from
\* 10 entries, and after the collapse one row is still there twice, at
\* positions that are not neighbours
C14_Witness ==
    \E r \in Reqs :
        /\ pc[r] = "join"
        /\ Len(MatchingRows(store, pair[r].a)) > 5
        /\ Len(ctx[r].chain) = 10
        /\ \E i \in 1..Len(ctx[r].kept), j \in 1..Len(ctx[r].kept) :
                j > i + 1 /\ ctx[r].kept[i] = ctx[r].kept[j]

\* C15: when every store operation and every dispatched oracle call settles,
\* a request inside conjure eventually returns, a Triple with its three
\* fields or an error; a request whose calls have all settled, failed ones
\* included, eventually leaves the join.
C15_RequestLiveness ==
    \A r \in Reqs :
        /\ (pc[r] \in {"find_a", "find_b", "join", "insert"}) ~>
                /\ Returned(r)
                /\ IF result[r].ok
                   THEN result[r].val = Triple(pair[r].a, pair[r].b, result[r].val.c)
                   ELSE result[r].from \in {"find_triples", "completion", "insert_triple"}
        /\ (pc[r] = "join" /\ \A i \in 1..Len(calls[r]) : calls[r][i].st = "settled") ~>
                pc[r] \in {"insert", "done"}

\* C15 witness: under Sample(3) a request with one call failed and one
\* answered has chosen the answer and waits for its insert
C15_Witness ==
    \E r \in Reqs :
        /\ strategy = Sample(3)
        /\ pc[r] = "insert"
        /\ Len(calls[r]) = 2
        /\ \E i \in 1..2 : ~calls[r][i].res.ok
        /\ \E i \in 1..2 : calls[r][i].res.ok /\ calls[r][i].res.val = c[r]

====
